---- MODULE Spec2Model ----
(***************************************************************************)
(* cos-2-cos (src/cos2cos/cos_2_cos.py): a Flask application that moves    *)
(* objects from a source bucket to a destination bucket, driven by         *)
(* notifications (POST /events/cos) and by reconciliation sweeps           *)
(* (POST /events/cron), and that keeps counters and a history in memory.   *)
(*                                                                         *)
(* Each request is served by a worker thread.  A handler is modelled as    *)
(* the sequence of its accesses to shared state (event_stats,              *)
(* event_history, buckets, the object storage); the handler-local work     *)
(* between two accesses belongs to the step of the access before it.       *)
(* Spec serves the requests one after another on a single worker;          *)
(* SpecConc serves them on MaxThreads workers that interleave.             *)
(*                                                                         *)
(* Timestamps (datetime.now()) and logging are left out: nothing reads     *)
(* them back.  An object is its key: the processing step is a no-op.       *)
(***************************************************************************)
EXTENDS Integers, Sequences, FiniteSets, TLC

\* ------------------------------------------------------------------ bounds
MaxTriggers == 3      \* triggers received under Spec
MaxConcTriggers == 2  \* triggers received under SpecConc
MaxLiveTriggers == 2  \* triggers received by one instance under SpecLive
MaxThreads == 2       \* workers of SpecConc

Keys == {"a", "b"}
Threads == 1..MaxThreads
SeqThreads == {1}

\* ----------------------------------------------------------- configuration
source_bucket == "source"
destination_bucket == "destination"
other_bucket == "other"

\* A request body: wf says whether it parses as JSON, json is the parsed
\* object (a function from field names to values; <<>> is the object {}).
Malformed == [wf |-> FALSE, json |-> <<>>]
Object(o) == [wf |-> TRUE, json |-> o]
CosBodies ==
    {Malformed, Object(<<>>)}
    \cup {Object([bucket |-> b, key |-> k]) :
            b \in {source_bucket, other_bucket}, k \in Keys}
    \cup {Object([key |-> k]) : k \in Keys}
    \cup {Object([bucket |-> b]) : b \in {source_bucket, other_bucket}}
CronBodies == {Malformed, Object(<<>>), Object([tick |-> "a"])}

VARIABLES
    event_stats,    \* create_server: the four counters
    event_history,  \* create_server: the list of history records
    buckets,        \* create_server: the bucket registry of GET /files
    objects,        \* the object storage: bucket name -> set of keys
    th,             \* per worker thread: position and locals of its handler
    arrived,        \* triggers received so far, per class
    answered,       \* responses given so far, per class and status
    limit           \* how many triggers the clients send in all

vars ==
    <<event_stats, event_history, buckets, objects, th, arrived, answered, limit>>

\* ---------------------------------------------------------------- helpers
None == [none |-> TRUE, val |-> <<>>]

\* request.get_json(silent=True): None when the body does not parse.
get_json(body) == IF body.wf THEN [none |-> FALSE, val |-> body.json] ELSE None

\* Python truthiness of `event`: None and the empty dict are falsy.
Truthy(event) == ~event.none /\ DOMAIN event.val # {}

FromAnyBucket(event) == TRUE

\* Line 94: events not generated by the configured source bucket are
\* discarded.
FromSource(event) == event.val.bucket = source_bucket

\* event[field] raises KeyError when the field is absent.
HasKey(event, field) == field \in DOMAIN event.val

NoId == [class |-> "none", n |-> 0]
NoEvent == [id |-> NoId, objects |-> <<>>]

\* 'cos-' + str(n), 'cron-' + str(n): the class and the number printed.
EventId(class, n) == [class |-> class, n |-> n]

TransferEvent(key, status) ==
    [key |-> key, source_bucket |-> source_bucket,
     destination_bucket |-> destination_bucket, status |-> status]

Call(op, bucket, file, ok) == [op |-> op, bucket |-> bucket, file |-> file, ok |-> ok]

ZeroStats == [cron |-> 0, cron_error |-> 0, cos |-> 0, cos_error |-> 0]
NoPre == [taken |-> FALSE, stats |-> ZeroStats, history |-> <<>>,
          src |-> {}, dst |-> {}]

\* A worker that serves no request.
Idle ==
    [pc |-> "idle", route |-> "none", body |-> Malformed, event |-> None,
     tmp |-> 0, source_object |-> "none", file |-> "none", status |-> "none",
     source_inventory |-> {}, listed |-> {}, history_event |-> NoEvent,
     b |-> 0, file_inventory |-> {},
     resp |-> "none", calls |-> <<>>, pre |-> NoPre]

\* What a test reads before it sends a trigger to a server that is serving
\* nothing else: the counters, the history and the contents of both buckets.
\* The effect of a handler is stated against it; with another handler in
\* flight there is no such state to compare with and none is taken.
Quiet(t) == \A u \in Threads \ {t} : th[u].pc = "idle"
Snapshot(t) ==
    IF Quiet(t)
    THEN [taken |-> TRUE, stats |-> event_stats, history |-> event_history,
          src |-> objects[source_bucket], dst |-> objects[destination_bucket]]
    ELSE NoPre

\* A worker that has just been handed a request.
Started(t, route, body) ==
    [Idle EXCEPT !.route = route, !.body = body, !.event = get_json(body),
                 !.pre = Snapshot(t)]

\* The handler ends: the response goes out (abort(400), an uncaught
\* exception turned into 500 by Flask, or the returned 'OK').
Ended(l, resp) == [l EXCEPT !.pc = "done", !.resp = resp]

NotIncremented(n) == n

\* x = x + 1 on a counter is a read and a later write.
Incremented(n) == n + 1

StatusAlwaysOK(raised) == "OK"

StatusAlwaysError(raised) == "Deletion Error"

\* except COSError: ... = 'Deletion Error' (lines 111-112 and 173-174).
StatusOf(raised) == IF raised THEN "Deletion Error" ELSE "OK"

\* ---------------------------------------------------- the storage gateway
\* cos.CloudObjectStorage is not part of the sources: each operation either
\* succeeds or fails with the storage error (COSError).
\* get_file succeeds only for an object that is in the bucket.
GetFileOutcomes(bucket, file) ==
    IF file \in objects[bucket] THEN {TRUE, FALSE} ELSE {FALSE}

\* put_file, when it succeeds, leaves the object in the bucket.
PutFile(bucket, file, ok) ==
    IF ok THEN [objects EXCEPT ![bucket] = @ \cup {file}] ELSE objects

\* delete_file, when it succeeds, leaves the object out of the bucket.
DeleteFile(bucket, file, ok) ==
    IF ok THEN [objects EXCEPT ![bucket] = @ \ {file}] ELSE objects

\* get_files_info returns the keys of the bucket (with their metadata).
GetFilesInfo(bucket) == objects[bucket]

\* ------------------------------------------------------------ bookkeeping
CanArrive == arrived.cos + arrived.cron < limit

\* ----------------------------------------------- POST /events/cos (86-140)
\* Lines 87-94: parse the body, test `if event:` and compare the bucket.
\* event['bucket'] on an object without that field raises KeyError.
handle_cos_event(t) ==
    /\ th[t].pc = "idle"
    /\ CanArrive
    /\ \E body \in CosBodies :
         LET l == Started(t, "cos", body) IN
         th' = [th EXCEPT ![t] =
                  IF ~Truthy(l.event) THEN [l EXCEPT !.pc = "cos_invalid"]
                  ELSE IF ~HasKey(l.event, "bucket") THEN Ended(l, "500")
                  ELSE IF ~FromSource(l.event)
                       THEN [l EXCEPT !.pc = "cos_reject"]
                  ELSE [l EXCEPT !.pc = "cos_accept"]]
    /\ arrived' = [arrived EXCEPT !.cos = @ + 1]
    /\ UNCHANGED <<event_stats, event_history, buckets, objects, answered, limit>>

\* Line 95, right-hand side: read event_stats['cos_error'].
cos_reject_read(t) ==
    /\ th[t].pc = "cos_reject"
    /\ th' = [th EXCEPT ![t].tmp = event_stats.cos_error,
                        ![t].pc = "cos_reject_write"]
    /\ UNCHANGED <<event_stats, event_history, buckets, objects, arrived, answered, limit>>

\* Lines 95-96: store the incremented counter, abort(400).
cos_reject_write(t) ==
    /\ th[t].pc = "cos_reject_write"
    /\ event_stats' = [event_stats EXCEPT !.cos_error = Incremented(th[t].tmp)]
    /\ th' = [th EXCEPT ![t] = Ended(@, "400")]
    /\ UNCHANGED <<event_history, buckets, objects, arrived, answered, limit>>

\* Line 139, right-hand side (the else of `if event:`, for a body that did
\* not parse or is falsy): read event_stats['cos_error'].
cos_invalid_read(t) ==
    /\ th[t].pc = "cos_invalid"
    /\ th' = [th EXCEPT ![t].tmp = event_stats.cos_error,
                        ![t].pc = "cos_invalid_write"]
    /\ UNCHANGED <<event_stats, event_history, buckets, objects, arrived, answered, limit>>

\* Lines 139-140: store the incremented counter, abort(400).
cos_invalid_write(t) ==
    /\ th[t].pc = "cos_invalid_write"
    /\ event_stats' = [event_stats EXCEPT !.cos_error = Incremented(th[t].tmp)]
    /\ th' = [th EXCEPT ![t] = Ended(@, "400")]
    /\ UNCHANGED <<event_history, buckets, objects, arrived, answered, limit>>

\* A counter that is read only while no other worker is inside do(): the
\* ledger behind a lock that a pipeline holds across its storage calls.
cos_accept_read_locked(t) ==
    /\ th[t].pc = "cos_accept"
    /\ \A u \in Threads \ {t} :
         th[u].pc \notin {"do_get_file", "do_put_file", "do_delete_file"}
    /\ th' = [th EXCEPT ![t].tmp = event_stats.cos,
                        ![t].status = StatusOf(FALSE),
                        ![t].pc = "cos_accept_write"]
    /\ UNCHANGED <<event_stats, event_history, buckets, objects, arrived, answered, limit>>

\* Lines 97-98, right-hand side: event_status = 'OK', read event_stats['cos'].
cos_accept_read(t) ==
    /\ th[t].pc = "cos_accept"
    /\ th' = [th EXCEPT ![t].tmp = event_stats.cos,
                        ![t].status = StatusOf(FALSE),
                        ![t].pc = "cos_accept_write"]
    /\ UNCHANGED <<event_stats, event_history, buckets, objects, arrived, answered, limit>>

\* Lines 98-107: store the incremented counter, then source_object =
\* event['key'] (KeyError without that field) and the FileHandler.
cos_accept_write(t) ==
    /\ th[t].pc = "cos_accept_write"
    /\ event_stats' = [event_stats EXCEPT !.cos = Incremented(th[t].tmp)]
    /\ LET l == th[t] IN
       th' = [th EXCEPT ![t] =
                IF ~HasKey(l.event, "key") THEN Ended(l, "500")
                ELSE [l EXCEPT !.source_object = l.event.val.key,
                               !.file = l.event.val.key,
                               !.pc = "do_get_file"]]
    /\ UNCHANGED <<event_history, buckets, objects, arrived, answered, limit>>

\* ------------------------------------------------ FileHandler.do (18-47)
\* The COSError of do() caught nowhere: the request ends with 500.
AfterDoUncaught(l, raised) ==
    IF raised THEN Ended(l, "500")
    ELSE IF l.route = "cos"
    THEN [l EXCEPT !.status = "OK", !.pc = "cos_record"]
    ELSE [l EXCEPT !.status = "OK",
                   !.history_event.objects = Append(@, TransferEvent(l.file, "OK")),
                   !.pc = "cron_for"]

\* A sweep that records only the files whose do() returned.
AfterDoSkipFailed(l, raised) ==
    IF l.route = "cos"
    THEN [l EXCEPT !.status = StatusOf(raised), !.pc = "cos_record"]
    ELSE [l EXCEPT !.status = StatusOf(raised),
                   !.history_event.objects =
                       IF raised THEN @
                       ELSE Append(@, TransferEvent(l.file, StatusOf(raised))),
                   !.pc = "cron_for"]

\* do() is over, returned or raised COSError, and the caller goes on.
\* handle_cos_event (109-112): event_status, then the record is built.
\* handle_cron_event (171-184): object_status, and the TransferEvent of the
\* file is appended to the sweep's own history_event['objects'].
AfterDo(l, raised) ==
    IF l.route = "cos"
    THEN [l EXCEPT !.status = StatusOf(raised), !.pc = "cos_record"]
    ELSE [l EXCEPT !.status = StatusOf(raised),
                   !.history_event.objects =
                       Append(@, TransferEvent(l.file, StatusOf(raised))),
                   !.pc = "cron_for"]

Logged(l, op, bucket, ok) ==
    [l EXCEPT !.calls = Append(@, Call(op, bucket, l.file, ok))]

\* A get_file whose COSError is swallowed: do() goes on to put_file.
do_get_file_swallow(t) ==
    /\ th[t].pc = "do_get_file"
    /\ \E ok \in GetFileOutcomes(source_bucket, th[t].file) :
         LET l == Logged(th[t], "get_file", source_bucket, ok) IN
         th' = [th EXCEPT ![t] = [l EXCEPT !.pc = "do_put_file"]]
    /\ UNCHANGED <<event_stats, event_history, buckets, objects, arrived, answered, limit>>

\* Lines 19-21: cos_client.get_file from the source bucket; its COSError
\* leaves do().
do_get_file(t) ==
    /\ th[t].pc = "do_get_file"
    /\ \E ok \in GetFileOutcomes(source_bucket, th[t].file) :
         LET l == Logged(th[t], "get_file", source_bucket, ok) IN
         th' = [th EXCEPT ![t] =
                  IF ok THEN [l EXCEPT !.pc = "do_put_file"] ELSE AfterDo(l, TRUE)]
    /\ UNCHANGED <<event_stats, event_history, buckets, objects, arrived, answered, limit>>

\* A put_file whose COSError is swallowed: do() goes on to delete_file.
do_put_file_unchecked(t) ==
    /\ th[t].pc = "do_put_file"
    /\ \E ok \in BOOLEAN :
         LET l == Logged(th[t], "put_file", destination_bucket, ok) IN
         /\ objects' = PutFile(destination_bucket, th[t].file, ok)
         /\ th' = [th EXCEPT ![t] = [l EXCEPT !.pc = "do_delete_file"]]
    /\ UNCHANGED <<event_stats, event_history, buckets, arrived, answered, limit>>

\* Lines 33-35: cos_client.put_file into the destination bucket; its
\* COSError leaves do().
do_put_file(t) ==
    /\ th[t].pc = "do_put_file"
    /\ \E ok \in BOOLEAN :
         LET l == Logged(th[t], "put_file", destination_bucket, ok) IN
         /\ objects' = PutFile(destination_bucket, th[t].file, ok)
         /\ th' = [th EXCEPT ![t] =
                     IF ok THEN [l EXCEPT !.pc = "do_delete_file"]
                     ELSE AfterDo(l, TRUE)]
    /\ UNCHANGED <<event_stats, event_history, buckets, arrived, answered, limit>>

\* A do() that returns after put_file and never calls delete_file.
do_delete_file_skip(t) ==
    /\ th[t].pc = "do_delete_file"
    /\ th' = [th EXCEPT ![t] = AfterDo(@, FALSE)]
    /\ UNCHANGED <<event_stats, event_history, buckets, objects, arrived, answered, limit>>

\* Lines 39-47: cos_client.delete_file from the source bucket; its COSError
\* is logged and raised again.
do_delete_file(t) ==
    /\ th[t].pc = "do_delete_file"
    /\ \E ok \in BOOLEAN :
         LET l == Logged(th[t], "delete_file", source_bucket, ok) IN
         /\ objects' = DeleteFile(source_bucket, th[t].file, ok)
         /\ th' = [th EXCEPT ![t] = AfterDo(l, ~ok)]
    /\ UNCHANGED <<event_stats, event_history, buckets, arrived, answered, limit>>

\* Lines 117-129: the history record of the notification; its id reads
\* event_stats['cos'] at this point.
cos_record(t) ==
    /\ th[t].pc = "cos_record"
    /\ th' = [th EXCEPT
                ![t].history_event =
                    [id |-> EventId("cos", event_stats.cos),
                     objects |-> <<TransferEvent(th[t].source_object,
                                                 th[t].status)>>],
                ![t].pc = "cos_append"]
    /\ UNCHANGED <<event_stats, event_history, buckets, objects, arrived, answered, limit>>

\* The record put in front of the history (event_history.insert(0, ...)).
cos_insert_first(t) ==
    /\ th[t].pc = "cos_append"
    /\ event_history' = <<th[t].history_event>> \o event_history
    /\ th' = [th EXCEPT ![t] = Ended(@, "OK")]
    /\ UNCHANGED <<event_stats, buckets, objects, arrived, answered, limit>>

\* A handler that adds the source bucket to the registry without looking
\* whether it is there.
cos_append_register(t) ==
    /\ th[t].pc = "cos_append"
    /\ event_history' = Append(event_history, th[t].history_event)
    /\ buckets' = Append(buckets, source_bucket)
    /\ th' = [th EXCEPT ![t] = Ended(@, "OK")]
    /\ UNCHANGED <<event_stats, objects, arrived, answered, limit>>

\* Lines 133-137: append the record, add the source bucket to the registry
\* when it is not there, return 'OK'.
cos_append(t) ==
    /\ th[t].pc = "cos_append"
    /\ event_history' = Append(event_history, th[t].history_event)
    /\ buckets' = IF source_bucket \notin {buckets[i] : i \in DOMAIN buckets}
                  THEN Append(buckets, source_bucket) ELSE buckets
    /\ th' = [th EXCEPT ![t] = Ended(@, "OK")]
    /\ UNCHANGED <<event_stats, objects, arrived, answered, limit>>

\* --------------------------------------------- POST /events/cron (146-189)
\* Lines 147-152: parse the body and test `if event:`.
handle_cron_event(t) ==
    /\ th[t].pc = "idle"
    /\ CanArrive
    /\ \E body \in CronBodies :
         LET l == Started(t, "cron", body) IN
         th' = [th EXCEPT ![t] =
                  IF Truthy(l.event) THEN [l EXCEPT !.pc = "cron_accept"]
                  ELSE [l EXCEPT !.pc = "cron_invalid"]]
    /\ arrived' = [arrived EXCEPT !.cron = @ + 1]
    /\ UNCHANGED <<event_stats, event_history, buckets, objects, answered, limit>>

\* Line 153, right-hand side: read event_stats['cron'].
cron_accept_read(t) ==
    /\ th[t].pc = "cron_accept"
    /\ th' = [th EXCEPT ![t].tmp = event_stats.cron,
                        ![t].pc = "cron_accept_write"]
    /\ UNCHANGED <<event_stats, event_history, buckets, objects, arrived, answered, limit>>

\* Line 153: store the incremented counter.
cron_accept_write(t) ==
    /\ th[t].pc = "cron_accept_write"
    /\ event_stats' = [event_stats EXCEPT !.cron = Incremented(th[t].tmp)]
    /\ th' = [th EXCEPT ![t].pc = "cron_record"]
    /\ UNCHANGED <<event_history, buckets, objects, arrived, answered, limit>>

\* Lines 154-159: the history record of the sweep, with no objects yet; its
\* id reads event_stats['cron'] at this point.
cron_record(t) ==
    /\ th[t].pc = "cron_record"
    /\ th' = [th EXCEPT
                ![t].history_event =
                    [id |-> EventId("cron", event_stats.cron), objects |-> <<>>],
                ![t].pc = "cron_list"]
    /\ UNCHANGED <<event_stats, event_history, buckets, objects, arrived, answered, limit>>

\* Lines 160-161: list the source bucket; a COSError here is caught nowhere
\* and ends the request with 500.
cron_list(t) ==
    /\ th[t].pc = "cron_list"
    /\ \E ok \in BOOLEAN :
         LET l == [th[t] EXCEPT !.calls =
                     Append(@, Call("get_files_info", source_bucket, "none", ok))]
         IN th' = [th EXCEPT ![t] =
                     IF ok THEN [l EXCEPT !.source_inventory =
                                              GetFilesInfo(source_bucket),
                                          !.listed = GetFilesInfo(source_bucket),
                                          !.pc = "cron_for"]
                     ELSE Ended(l, "500")]
    /\ UNCHANGED <<event_stats, event_history, buckets, objects, arrived, answered, limit>>

\* Lines 162-169: the next file of the listing (in whatever order the
\* listing gives them) and its FileHandler.  listed is the listing as it
\* was returned, source_inventory what the loop has still to visit.
cron_for(t) ==
    /\ th[t].pc = "cron_for"
    /\ th[t].source_inventory # {}
    /\ \E file \in th[t].source_inventory :
         th' = [th EXCEPT ![t].file = file,
                          ![t].source_inventory = @ \ {file},
                          ![t].pc = "do_get_file"]
    /\ UNCHANGED <<event_stats, event_history, buckets, objects, arrived, answered, limit>>

\* A sweep that appends its record before the loop is over.
cron_append_early(t) ==
    /\ th[t].pc = "cron_for"
    /\ event_history' = Append(event_history, th[t].history_event)
    /\ th' = [th EXCEPT ![t] = Ended(@, "OK")]
    /\ UNCHANGED <<event_stats, buckets, objects, arrived, answered, limit>>

\* Lines 185-186: the listing is exhausted; append the record, return 'OK'.
cron_append(t) ==
    /\ th[t].pc = "cron_for"
    /\ th[t].source_inventory = {}
    /\ event_history' = Append(event_history, th[t].history_event)
    /\ th' = [th EXCEPT ![t] = Ended(@, "OK")]
    /\ UNCHANGED <<event_stats, buckets, objects, arrived, answered, limit>>

\* Line 188, right-hand side (the else of `if event:`, for a body that did
\* not parse or is falsy): read event_stats['cron_error'].
cron_invalid_read(t) ==
    /\ th[t].pc = "cron_invalid"
    /\ th' = [th EXCEPT ![t].tmp = event_stats.cron_error,
                        ![t].pc = "cron_invalid_write"]
    /\ UNCHANGED <<event_stats, event_history, buckets, objects, arrived, answered, limit>>

\* Lines 188-189: store the incremented counter, abort(400).
cron_invalid_write(t) ==
    /\ th[t].pc = "cron_invalid_write"
    /\ event_stats' = [event_stats EXCEPT !.cron_error = Incremented(th[t].tmp)]
    /\ th' = [th EXCEPT ![t] = Ended(@, "400")]
    /\ UNCHANGED <<event_history, buckets, objects, arrived, answered, limit>>

\* ------------------------------------------------------ the GET routes
\* The routes that only read (61-84).
GetRoutes == {"files", "stats", "history"}

\* A worker that has just been handed a GET request.
Reading(route) == [Idle EXCEPT !.route = route]

\* GET /files, lines 62-63: file_inventory = {}, and the loop over the
\* bucket registry begins; b is the place of the loop in buckets.
get_files(t) ==
    /\ th[t].pc = "idle"
    /\ th' = [th EXCEPT ![t] = [Reading("files") EXCEPT !.pc = "files_for",
                                                       !.b = 1]]
    /\ UNCHANGED <<event_stats, event_history, buckets, objects, arrived, answered, limit>>

\* Lines 67-76: list the next bucket of the registry and enter its files
\* into file_inventory; a COSError is caught nowhere (500); after the last
\* bucket the page is rendered.
files_for(t) ==
    /\ th[t].pc = "files_for"
    /\ IF th[t].b > Len(buckets)
       THEN th' = [th EXCEPT ![t] = Ended(@, "OK")]
       ELSE \E ok \in BOOLEAN :
              LET bucket == buckets[th[t].b]
                  l == [th[t] EXCEPT !.calls =
                          Append(@, Call("get_files_info", bucket, "none", ok))]
              IN th' = [th EXCEPT ![t] =
                          IF ok THEN [l EXCEPT !.file_inventory =
                                          @ \cup {<<f, bucket>> :
                                                    f \in GetFilesInfo(bucket)},
                                               !.b = @ + 1]
                          ELSE Ended(l, "500")]
    /\ UNCHANGED <<event_stats, event_history, buckets, objects, arrived, answered, limit>>

\* A GET /events/stats that zeroes the counters it returns.
get_event_stats_reset(t) ==
    /\ th[t].pc = "idle"
    /\ event_stats' = ZeroStats
    /\ th' = [th EXCEPT ![t] = Ended(Reading("stats"), "OK")]
    /\ UNCHANGED <<event_history, buckets, objects, arrived, answered, limit>>

\* GET /events/stats, lines 78-80: return event_stats.
get_event_stats(t) ==
    /\ th[t].pc = "idle"
    /\ th' = [th EXCEPT ![t] = Ended(Reading("stats"), "OK")]
    /\ UNCHANGED <<event_stats, event_history, buckets, objects, arrived, answered, limit>>

\* GET /events/history, lines 82-84: render event_history.
get_event_history(t) ==
    /\ th[t].pc = "idle"
    /\ th' = [th EXCEPT ![t] = Ended(Reading("history"), "OK")]
    /\ UNCHANGED <<event_stats, event_history, buckets, objects, arrived, answered, limit>>

\* ------------------------------------------------------------- the server
\* The response has gone out and the worker is free for the next request.
\* answered counts the responses to the two triggers.
Respond(t) ==
    /\ th[t].pc = "done"
    /\ answered' = IF th[t].route \in DOMAIN answered
                   THEN [answered EXCEPT ![th[t].route][th[t].resp] = @ + 1]
                   ELSE answered
    /\ th' = [th EXCEPT ![t] = Idle]
    /\ UNCHANGED <<event_stats, event_history, buckets, objects, arrived, limit>>

Responses == {"OK", "400", "500"}

\* create_server (50-53), over buckets that hold any objects.
Created ==
    /\ event_stats = ZeroStats
    /\ event_history = <<>>
    /\ buckets = <<source_bucket, destination_bucket>>
    /\ objects \in [{source_bucket, destination_bucket} -> SUBSET Keys]
    /\ th = [t \in Threads |-> Idle]
    /\ arrived = [cos |-> 0, cron |-> 0]
    /\ answered = [c \in {"cos", "cron"} |-> [r \in Responses |-> 0]]

Init == Created /\ limit = MaxTriggers
InitConc == Created /\ limit = MaxConcTriggers

Step(t) ==
    \/ handle_cos_event(t)
    \/ cos_reject_read(t)
    \/ cos_reject_write(t)
    \/ cos_invalid_read(t)
    \/ cos_invalid_write(t)
    \/ cos_accept_read(t)
    \/ cos_accept_write(t)
    \/ do_get_file(t)
    \/ do_put_file(t)
    \/ do_delete_file(t)
    \/ cos_record(t)
    \/ cos_append(t)
    \/ handle_cron_event(t)
    \/ cron_accept_read(t)
    \/ cron_accept_write(t)
    \/ cron_record(t)
    \/ cron_list(t)
    \/ cron_for(t)
    \/ cron_append(t)
    \/ cron_invalid_read(t)
    \/ cron_invalid_write(t)
    \/ Respond(t)

\* One worker: the requests are served one after another.
Next == \E t \in SeqThreads : Step(t)
Spec == Init /\ [][Next]_vars

\* MaxThreads workers: the handlers interleave at their shared accesses.
NextConc == \E t \in Threads : Step(t)
SpecConc == InitConc /\ [][NextConc]_vars

\* The steps of the GET routes.
Read(t) ==
    \/ get_files(t)
    \/ files_for(t)
    \/ get_event_stats(t)
    \/ get_event_history(t)

\* MaxThreads workers that serve the triggers and the GET routes.
NextServe == \E t \in Threads : Step(t) \/ Read(t)
SpecServe == InitConc /\ [][NextServe]_vars

\* ================================================================ claims
\* The handler of worker t has ended and its response has not yet gone out:
\* the state shows the whole effect of the trigger, next to the state it
\* started from (pre) and the storage calls it made (calls).
Done(t) == th[t].pc = "done" /\ th[t].pre.taken

Stored == [src |-> objects[source_bucket], dst |-> objects[destination_bucket]]
Before(t) == [src |-> th[t].pre.src, dst |-> th[t].pre.dst]

\* Exactly one record was appended to the history the trigger started from.
AppendedOne(t) ==
    /\ Len(event_history) = Len(th[t].pre.history) + 1
    /\ SubSeq(event_history, 1, Len(th[t].pre.history)) = th[t].pre.history

LastRecord == event_history[Len(event_history)]

\* The counters the trigger started from, with one of them one higher.
OneMore(t, counter) == [th[t].pre.stats EXCEPT ![counter] = @ + 1]

WellFormedNotification(body) ==
    body.wf /\ DOMAIN body.json = {"bucket", "key"}

\* The calls the trigger made for a key, by operation and result.
Called(t, op, file, ok) ==
    \E i \in DOMAIN th[t].calls :
        /\ th[t].calls[i].op = op
        /\ th[t].calls[i].file = file
        /\ th[t].calls[i].ok = ok

\* C1: a notification with a well-formed payload (bucket and key) naming the
\* configured source bucket adds 1 to cos and to no other counter, and
\* appends exactly one record, which holds exactly one TransferEvent, for
\* the key of the payload.
C1_AcceptedNotification ==
    \A t \in Threads :
        (/\ Done(t)
         /\ th[t].route = "cos"
         /\ WellFormedNotification(th[t].body)
         /\ th[t].body.json.bucket = source_bucket)
        => /\ event_stats = OneMore(t, "cos")
           /\ AppendedOne(t)
           /\ Len(LastRecord.objects) = 1
           /\ LastRecord.objects[1].key = th[t].body.json.key

\* An accepted notification whose fetch failed has ended.
C1_Witness ==
    \E t \in Threads :
        /\ Done(t)
        /\ th[t].route = "cos"
        /\ WellFormedNotification(th[t].body)
        /\ th[t].body.json.bucket = source_bucket
        /\ th[t].pre.stats.cos = 1
        /\ Called(t, "get_file", th[t].body.json.key, FALSE)

\* C2: a notification whose payload names another bucket adds 1 to
\* cos_error (and to no other counter), appends no record, makes no storage
\* call, leaves both buckets as they were and is answered 400.
C2_WrongBucketRejected ==
    \A t \in Threads :
        (/\ Done(t)
         /\ th[t].route = "cos"
         /\ th[t].body.wf
         /\ "bucket" \in DOMAIN th[t].body.json
         /\ th[t].body.json.bucket # source_bucket)
        => /\ event_stats = OneMore(t, "cos_error")
           /\ event_history = th[t].pre.history
           /\ th[t].calls = <<>>
           /\ Stored = Before(t)
           /\ th[t].resp = "400"

\* A notification for a key of the source bucket, sent in the name of
\* another bucket, has ended.
C2_Witness ==
    \E t \in Threads :
        /\ Done(t)
        /\ th[t].route = "cos"
        /\ th[t].body = Object([bucket |-> other_bucket, key |-> "a"])
        /\ "a" \in objects[source_bucket]
        /\ th[t].resp = "400"

\* C3: a body that does not parse adds 1 to cos_error on POST /events/cos
\* and 1 to cron_error on POST /events/cron (and to no other counter); no
\* record is appended, no storage call is made and both buckets are as they
\* were.
C3_MalformedRejected ==
    \A t \in Threads :
        (Done(t) /\ ~th[t].body.wf)
        => /\ th[t].route = "cos" => event_stats = OneMore(t, "cos_error")
           /\ th[t].route = "cron" => event_stats = OneMore(t, "cron_error")
           /\ event_history = th[t].pre.history
           /\ th[t].calls = <<>>
           /\ Stored = Before(t)

\* A malformed sweep trigger has ended, after a malformed notification.
C3_Witness ==
    \E t \in Threads :
        /\ Done(t)
        /\ th[t].route = "cron"
        /\ ~th[t].body.wf
        /\ th[t].pre.stats.cos_error = 1
        /\ event_stats.cron_error = 1
        /\ objects[source_bucket] # {}

\* No handler is in flight.
Quiescent == \A t \in Threads : th[t].pc = "idle"

\* C4: every trigger that is accepted (answered 'OK') or rejected (answered
\* 400) changes exactly one counter, by +1; once N notifications were
\* accepted, M rejected, P sweeps accepted and Q rejected, the counters read
\* cos = N, cos_error = M, cron = P, cron_error = Q; and cos + cos_error is
\* the number of notification triggers received, those that lack the bucket
\* or the key field included.
C4_CountersMatchTriggers ==
    /\ \A t \in Threads :
         (Done(t) /\ th[t].resp \in {"OK", "400"})
         => \E counter \in DOMAIN event_stats : event_stats = OneMore(t, counter)
    /\ Quiescent =>
         /\ event_stats.cos = answered["cos"]["OK"]
         /\ event_stats.cos_error = answered["cos"]["400"]
         /\ event_stats.cron = answered["cron"]["OK"]
         /\ event_stats.cron_error = answered["cron"]["400"]
         /\ event_stats.cos + event_stats.cos_error = arrived.cos

\* The sweep of worker t has its listing of the source bucket.
Listed(t) == th[t].route = "cron" /\ Called(t, "get_files_info", "none", TRUE)

\* The keys of the TransferEvents of a record, in order.
KeysOf(record) == [i \in DOMAIN record.objects |-> record.objects[i].key]
Recorded(record, file, status) ==
    \E i \in DOMAIN record.objects :
        record.objects[i] = TransferEvent(file, status)

\* C5: an accepted sweep over a source bucket that lists the keys K appends
\* exactly one record, which holds exactly |K| TransferEvents, one for each
\* key of K, whatever happened to each key.  (With one trigger at a time K
\* is the content of the source bucket when the trigger arrives.)
C5_SweepRecordsEveryKey ==
    \A t \in Threads :
        (Done(t) /\ Listed(t))
        => /\ AppendedOne(t)
           /\ Len(LastRecord.objects) = Cardinality(th[t].pre.src)
           /\ {KeysOf(LastRecord)[i] : i \in DOMAIN LastRecord.objects}
                = th[t].pre.src

\* A sweep over two keys has ended: the fetch of one failed, the store of
\* the other failed.
C5_Witness ==
    \E t \in Threads :
        /\ Done(t)
        /\ th[t].route = "cron"
        /\ th[t].resp = "OK"
        /\ th[t].pre.src = {"a", "b"}
        /\ Called(t, "get_file", "a", FALSE)
        /\ Called(t, "put_file", "b", FALSE)

\* Fetch and store of the key succeeded and its delete failed, in the
\* trigger worker t has just handled.
DeleteFailed(t, file) ==
    /\ Called(t, "get_file", file, TRUE)
    /\ Called(t, "put_file", file, TRUE)
    /\ Called(t, "delete_file", file, FALSE)

\* C6: when fetch and store of a key succeed and its delete fails, the
\* TransferEvent of the key has status Deletion Error, the trigger still
\* completes ('OK') and appends its record, and the key is then in the
\* source bucket and in the destination bucket.
C6_DeleteFailureRecorded ==
    \A t \in Threads : \A file \in Keys :
        (Done(t) /\ DeleteFailed(t, file))
        => /\ th[t].resp = "OK"
           /\ AppendedOne(t)
           /\ Recorded(LastRecord, file, "Deletion Error")
           /\ ~Recorded(LastRecord, file, "OK")
           /\ file \in objects[source_bucket]
           /\ file \in objects[destination_bucket]

\* A notification whose delete failed has ended, for a key that was not in
\* the destination bucket before.
C6_Witness ==
    \E t \in Threads :
        /\ Done(t)
        /\ th[t].route = "cos"
        /\ DeleteFailed(t, "a")
        /\ "a" \notin th[t].pre.dst

\* C7: a recorded TransferEvent has status OK only if fetch, store and
\* delete of its key all succeeded in that run, and status Deletion Error
\* only if fetch and store succeeded and the delete failed; a run whose
\* fetch or store failed leaves no TransferEvent.
C7_StatusTellsOutcome ==
    \A t \in Threads :
        (Done(t) /\ th[t].resp = "OK")
        => \A file \in Keys :
             /\ Recorded(LastRecord, file, "OK")
                  => /\ Called(t, "get_file", file, TRUE)
                     /\ Called(t, "put_file", file, TRUE)
                     /\ Called(t, "delete_file", file, TRUE)
             /\ Recorded(LastRecord, file, "Deletion Error")
                  => DeleteFailed(t, file)
             /\ (Called(t, "get_file", file, FALSE)
                   \/ Called(t, "put_file", file, FALSE))
                  => \A status \in {"OK", "Deletion Error"} :
                        ~Recorded(LastRecord, file, status)

\* An earlier record of the history holds a Deletion Error for the key.
EarlierDeletionError(history, file) ==
    \E n \in DOMAIN history : Recorded(history[n], file, "Deletion Error")

\* C8: a key left in the source bucket by a migration that ended in
\* Deletion Error is attempted again by a later accepted sweep (fetch, then
\* store, then delete), and when the three succeed the sweep records OK for
\* the key, which is then out of the source bucket and in the destination.
C8_SweepRetriesDeletionError ==
    \A t \in Threads : \A file \in Keys :
        (/\ Done(t)
         /\ Listed(t)
         /\ file \in th[t].pre.src
         /\ EarlierDeletionError(th[t].pre.history, file))
        => /\ \E ok \in BOOLEAN : Called(t, "get_file", file, ok)
           /\ Called(t, "get_file", file, TRUE)
                => \E ok \in BOOLEAN : Called(t, "put_file", file, ok)
           /\ Called(t, "put_file", file, TRUE)
                => \E ok \in BOOLEAN : Called(t, "delete_file", file, ok)
           /\ Called(t, "delete_file", file, TRUE)
                => /\ Recorded(LastRecord, file, "OK")
                   /\ file \notin objects[source_bucket]
                   /\ file \in objects[destination_bucket]

\* A sweep has ended that migrated a key an earlier trigger had left behind
\* with a Deletion Error.
C8_Witness ==
    \E t \in Threads :
        /\ Done(t)
        /\ th[t].route = "cron"
        /\ th[t].resp = "OK"
        /\ "a" \in th[t].pre.src
        /\ "a" \in th[t].pre.dst
        /\ EarlierDeletionError(th[t].pre.history, "a")
        /\ Called(t, "delete_file", "a", TRUE)

\* C9: POST /events/cron with any well-formed JSON object as its body, the
\* empty object included, adds 1 to cron (not to cron_error), runs the
\* sweep and, when the listing succeeds, appends one record.
C9_AnyObjectAccepted ==
    \A t \in Threads :
        (Done(t) /\ th[t].route = "cron" /\ th[t].body.wf)
        => /\ event_stats = OneMore(t, "cron")
           /\ th[t].resp # "400"
           /\ Listed(t) => AppendedOne(t)

\* C10: the ids of the records of the history are pairwise distinct, and
\* within a class (cos-<n>, cron-<n>) the numbers increase strictly in
\* history order.
C10_IdsDistinctAndIncreasing ==
    \A i, j \in DOMAIN event_history :
        i < j =>
            /\ event_history[i].id # event_history[j].id
            /\ event_history[i].id.class = event_history[j].id.class
                 => event_history[i].id.n < event_history[j].id.n

\* C11: under any interleaving no increment is lost: once no trigger is in
\* flight, cos_error and cron_error are the numbers of notifications and of
\* sweeps answered 400, and cos and cron are at least the numbers of
\* notifications and of sweeps answered 'OK' (every one of them has
\* incremented its counter once).
C11_NoIncrementLost ==
    Quiescent =>
        /\ event_stats.cos_error = answered["cos"]["400"]
        /\ event_stats.cron_error = answered["cron"]["400"]
        /\ event_stats.cos >= answered["cos"]["OK"]
        /\ event_stats.cron >= answered["cron"]["OK"]

IsPrefix(s, r) == Len(s) <= Len(r) /\ SubSeq(r, 1, Len(s)) = s

\* C12: the history is append-only: in every step of every execution the
\* history before the step is a prefix of the history after it, so that no
\* record is removed, moved or changed once it is in the history.
C12_HistoryAppendOnly ==
    [][IsPrefix(event_history, event_history')]_vars

\* A sweep record with two TransferEvents lies in the history, under a
\* record appended after it.
C12_Witness ==
    /\ Len(event_history) = 2
    /\ event_history[1].id.class = "cron"
    /\ Len(event_history[1].objects) = 2

\* Some call of the trigger of worker t, whatever its result.
Attempted(t, op, file) == \E ok \in BOOLEAN : Called(t, op, file, ok)

\* C13: within one migration the storage calls come in the order fetch,
\* store, delete, each only after the one before it succeeded: after a
\* failed fetch neither store nor delete is attempted, after a failed store
\* no delete is attempted, and the object is then still in the source bucket
\* and not added to the destination bucket by this run.
C13_FetchStoreDeleteInOrder ==
    \A t \in Threads :
        /\ \A i \in DOMAIN th[t].calls :
             LET c == th[t].calls[i] IN
             /\ c.op = "put_file" =>
                  i > 1 /\ th[t].calls[i - 1] =
                             Call("get_file", source_bucket, c.file, TRUE)
             /\ c.op = "delete_file" =>
                  i > 1 /\ th[t].calls[i - 1] =
                             Call("put_file", destination_bucket, c.file, TRUE)
        /\ \A file \in Keys :
             /\ (Done(t) /\ Called(t, "get_file", file, FALSE))
                  => /\ ~Attempted(t, "put_file", file)
                     /\ ~Attempted(t, "delete_file", file)
                     /\ file \in objects[source_bucket] <=> file \in th[t].pre.src
                     /\ file \in objects[destination_bucket]
                          <=> file \in th[t].pre.dst
             /\ (Done(t) /\ Called(t, "put_file", file, FALSE))
                  => /\ ~Attempted(t, "delete_file", file)
                     /\ file \in objects[source_bucket]
                     /\ file \in objects[destination_bucket]
                          <=> file \in th[t].pre.dst

\* A sweep has ended in which the fetch of one key and the store of the
\* other failed, the second not being in the destination bucket before.
C13_Witness ==
    \E t \in Threads :
        /\ Done(t)
        /\ Called(t, "get_file", "a", FALSE)
        /\ "a" \in th[t].pre.src
        /\ Called(t, "put_file", "b", FALSE)
        /\ "b" \notin th[t].pre.dst

\* Fetch, store and delete of the key all succeeded in the trigger of t.
Migrated(t, file) ==
    /\ Called(t, "get_file", file, TRUE)
    /\ Called(t, "put_file", file, TRUE)
    /\ Called(t, "delete_file", file, TRUE)

\* C14: in a sweep a failed fetch or store of one key does not end the
\* sweep: every key of the listing is attempted (its fetch is issued), a key
\* whose calls all succeed is moved to the destination bucket whatever
\* happened to the other keys, and the trigger is answered 'OK'.
C14_SweepSurvivesFailure ==
    \A t \in Threads :
        (Done(t) /\ Listed(t))
        => /\ th[t].resp = "OK"
           /\ \A file \in th[t].pre.src :
                /\ Attempted(t, "get_file", file)
                /\ Migrated(t, file)
                     => /\ file \in objects[destination_bucket]
                        /\ file \notin objects[source_bucket]

\* A sweep over two keys has ended: the fetch of a, the first key of the
\* sweep, failed, and b was moved after it.
C14_Witness ==
    \E t \in Threads :
        /\ Done(t)
        /\ Listed(t)
        /\ th[t].pre.src = {"a", "b"}
        /\ th[t].pre.dst = {}
        /\ th[t].calls[2] = Call("get_file", source_bucket, "a", FALSE)
        /\ Migrated(t, "b")

\* The set of the keys of the TransferEvents of a record.
KeySet(record) == {record.objects[i].key : i \in DOMAIN record.objects}

\* Worker t ends its handler with 'OK' in this step.
Returns(t) == th[t].pc # "done" /\ th'[t].pc = "done" /\ th'[t].resp = "OK"

\* C15: the record of a sweep is appended exactly once, and only when every
\* key of the sweep's listing has been attempted: whenever the history
\* changes, in any interleaving, one record is appended by a handler that
\* returns in that step, and when this is a sweep the record holds one
\* TransferEvent for each key the sweep listed; a sweep that returns has
\* appended its record in that step.
C15_SweepRecordComplete ==
    [][/\ event_history' # event_history =>
            \E t \in Threads :
                /\ Returns(t)
                /\ event_history' = Append(event_history, th[t].history_event)
                /\ th[t].route = "cron" =>
                     /\ KeySet(th[t].history_event) = th[t].listed
                     /\ Len(th[t].history_event.objects)
                          = Cardinality(th[t].listed)
                     /\ \A file \in th[t].listed : Attempted(t, "get_file", file)
       /\ \A t \in Threads :
            (Returns(t) /\ th[t].route = "cron")
            => event_history' = Append(event_history, th[t].history_event)
      ]_vars

\* A sweep that listed two keys has appended its record while the other
\* worker is in the middle of a handler of its own.
C15_Witness ==
    \E t, u \in Threads :
        /\ th[t].pc = "done"
        /\ th[t].route = "cron"
        /\ Cardinality(th[t].listed) = 2
        /\ event_history # <<>>
        /\ LastRecord = th[t].history_event
        /\ th[u].pc \in {"do_put_file", "do_delete_file"}

\* C16: GET /files, GET /events/stats and GET /events/history change nothing:
\* every step of a worker that serves one of them, from its arrival to its
\* response and whatever the other worker is doing, leaves the counters, the
\* history, the bucket registry and the contents of both buckets as they
\* were.
C16_ReadsChangeNothing ==
    [][\A t \in Threads :
          (th'[t] # th[t] /\ (th[t].route \in GetRoutes \/ th'[t].route \in GetRoutes))
          => UNCHANGED <<event_stats, event_history, buckets, objects>>
      ]_vars

\* GET /files has listed both buckets and returned while the other worker
\* is between the store and the delete of a migration, after a trigger that
\* was counted.
C16_Witness ==
    \E t, u \in Threads :
        /\ th[t].pc = "done"
        /\ th[t].route = "files"
        /\ th[t].resp = "OK"
        /\ Len(th[t].calls) = 2
        /\ th[u].pc = "do_delete_file"
        /\ event_stats.cos + event_stats.cron > 0

\* The keys held by either bucket.
Held == objects[source_bucket] \cup objects[destination_bucket]

\* Worker t is the run that may delete file: its store of file to the
\* destination bucket is the last storage call it made, and it succeeded.
StoredBy(t, file) ==
    /\ th[t].pc = "do_delete_file"
    /\ th[t].file = file
    /\ th[t].calls # <<>>
    /\ th[t].calls[Len(th[t].calls)] = Call("put_file", destination_bucket, file, TRUE)

\* C17: no object is lost, whatever the interleaving of the triggers and
\* whichever storage operations fail: a key held by the source or the
\* destination bucket is still held by one of them after every step, and a
\* key leaves the source bucket only in the delete step of a run that has
\* itself stored that key, when the key is in the destination bucket.
C17_NoObjectLost ==
    [][\A file \in Keys :
          /\ file \in Held => file \in Held'
          /\ (file \in objects[source_bucket] /\ file \notin objects'[source_bucket])
             => /\ file \in objects[destination_bucket]
                /\ file \in objects'[destination_bucket]
                /\ \E t \in Threads : StoredBy(t, file) /\ th'[t].pc # "do_delete_file"
      ]_vars

\* Two runs on the same key: one has deleted it from the source bucket
\* while the other, which fetched it earlier, has still to store it.
C17_Witness ==
    \E t, u \in Threads, file \in Keys :
        /\ t # u
        /\ Called(t, "delete_file", file, TRUE)
        /\ th[u].pc = "do_put_file"
        /\ th[u].file = file
        /\ file \notin objects[source_bucket]
        /\ file \in objects[destination_bucket]

\* ------------------------------------------------- the server that stays up
\* The instance is replaced by a fresh one (start_server runs create_server
\* again): counters and history start over, the buckets keep their objects.
\* Taken once the instance has served limit triggers, so that the counters
\* stay bounded while triggers keep arriving.
Restart ==
    /\ Quiescent
    /\ ~CanArrive
    /\ event_stats' = ZeroStats
    /\ event_history' = <<>>
    /\ buckets' = <<source_bucket, destination_bucket>>
    /\ th' = [t \in Threads |-> Idle]
    /\ arrived' = [cos |-> 0, cron |-> 0]
    /\ answered' = [c \in {"cos", "cron"} |-> [r \in Responses |-> 0]]
    /\ UNCHANGED <<objects, limit>>

\* A sweep arrives with a body that is accepted (line 152).
SweepAccepted(t) == handle_cron_event(t) /\ th'[t].pc = "cron_accept"

\* The listing of the source bucket succeeds (line 160).
ListingOK(t) == cron_list(t) /\ th'[t].pc = "cron_for"

\* The fetch, the store, the delete of file succeeds (lines 19, 33, 40).
FetchOK(t, file) ==
    do_get_file(t) /\ th[t].file = file /\ th'[t].pc = "do_put_file"
StoreOK(t, file) ==
    do_put_file(t) /\ th[t].file = file /\ th'[t].pc = "do_delete_file"
DeleteOK(t, file) ==
    do_delete_file(t) /\ th[t].file = file /\ th'[t].status = StatusOf(FALSE)

\* One worker that is never stopped for good, sweeps that keep being
\* accepted, and storage calls that, tried again and again on a key, succeed
\* in the end.  Notifications arrive or not, as often as they like.
NextLive == (\E t \in SeqThreads : Step(t)) \/ Restart
Fairness ==
    /\ WF_vars(Restart)
    /\ \A t \in SeqThreads :
         /\ WF_vars(Step(t))
         /\ SF_vars(SweepAccepted(t))
         /\ SF_vars(ListingOK(t))
         /\ \A file \in Keys :
              /\ SF_vars(FetchOK(t, file))
              /\ SF_vars(StoreOK(t, file))
              /\ SF_vars(DeleteOK(t, file))
InitLive == Created /\ limit = MaxLiveTriggers
SpecLive == InitLive /\ [][NextLive]_vars /\ Fairness

\* C18: with sweeps that keep being accepted and storage calls that succeed
\* in the end, every key in the source bucket is eventually in the
\* destination bucket and no longer in the source bucket, whether or not a
\* notification for it ever arrives.
C18_EventualConvergence ==
    \A file \in Keys :
        (file \in objects[source_bucket])
        ~> (file \in objects[destination_bucket]
            /\ file \notin objects[source_bucket])

\* A sweep has moved a key for which no notification was ever received,
\* after a first attempt of the same sweep on the other key failed.
C18_Witness ==
    \E t \in SeqThreads :
        /\ th[t].pc = "done"
        /\ th[t].route = "cron"
        /\ arrived.cos = 0
        /\ th[t].pre.taken
        /\ th[t].pre.src = Keys
        /\ Called(t, "put_file", "a", FALSE)
        /\ Migrated(t, "b")
        /\ objects[source_bucket] = {"a"}

\* Worker t is inside a fetch or a store that has not returned.
Hung(t) == th[t].pc \in {"do_get_file", "do_put_file"}

\* C19: a fetch or store that does not return holds up nothing but its own
\* request: in every state in which a worker is inside such a call, every
\* other worker that is serving a request can take its next step (update a
\* counter, call the storage, append its record, answer), and every idle
\* worker can serve each GET route and, while triggers still arrive, each
\* trigger.
C19_HungCallBlocksOnlyItself ==
    \A t \in Threads :
        Hung(t) =>
            \A u \in Threads \ {t} :
                IF th[u].pc = "idle"
                THEN /\ ENABLED get_files(u)
                     /\ ENABLED get_event_stats(u)
                     /\ ENABLED get_event_history(u)
                     /\ CanArrive => /\ ENABLED handle_cos_event(u)
                                     /\ ENABLED handle_cron_event(u)
                ELSE ENABLED (Step(u) \/ Read(u))

\* A notification is inside its fetch, which has not returned; a sweep
\* that arrived after it has been counted, has moved a key, has appended its
\* record and has returned.
C19_Witness ==
    \E t, u \in Threads :
        /\ th[t].route = "cos"
        /\ th[t].pc = "do_get_file"
        /\ th[u].route = "cron"
        /\ th[u].pc = "done"
        /\ th[u].resp = "OK"
        /\ ~th[u].pre.taken
        /\ event_stats.cron = 1
        /\ event_history # <<>>
        /\ LastRecord = th[u].history_event
        /\ \E file \in Keys : Migrated(u, file)

\* C20: the bucket registry is always the sequence (source bucket,
\* destination bucket) of create_server, so no handler ever appends to it,
\* and every store made by a pipeline is into the destination bucket, every
\* fetch and every delete on the source bucket.
C20_RegistryConstant ==
    /\ buckets = <<source_bucket, destination_bucket>>
    /\ \A t \in Threads : \A i \in DOMAIN th[t].calls :
         LET call == th[t].calls[i] IN
         /\ call.op = "put_file" => call.bucket = destination_bucket
         /\ call.op \in {"get_file", "delete_file"} => call.bucket = source_bucket

\* Two notifications have been accepted and have appended their records,
\* the later one after its store and its delete.
C20_Witness ==
    \E t \in Threads :
        /\ th[t].pc = "done"
        /\ th[t].route = "cos"
        /\ th[t].resp = "OK"
        /\ Len(event_history) = 2
        /\ event_history[1].id.class = "cos"
        /\ \E file \in Keys : Called(t, "put_file", file, TRUE)
                              /\ Attempted(t, "delete_file", file)

====
